---- MODULE Spec2Model ----
(***************************************************************************)
(* Model of the autonomous execution loop of the Agentic repository:       *)
(* AutonomousAgent.execute_autonomous_task (core/autonomous_agent.py), the *)
(* tool dispatcher it drives, and the ProjectSession store it writes       *)
(* (core/project_session.py).                                              *)
(*                                                                         *)
(* Texts are sequences of atoms (strings).  The completion sentinel        *)
(* "TASK_COMPLETE:" is one atom, so startswith and replace are computed on *)
(* atoms.  Python's None is the one-atom text <<"None">>, which no input   *)
(* text uses.                                                              *)
(***************************************************************************)
EXTENDS Integers, Sequences, FiniteSets, TLC

VARIABLES
    pc,                   \* position inside execute_autonomous_task
    max_iterations,       \* self.max_iterations
    project_session_id,   \* self.project_session_id
    task,                 \* the task argument of the run
    conversation_history, \* self.conversation_history
    iteration,            \* local: iteration
    task_complete,        \* local: task_complete
    completion_info,      \* local: completion_info (a parsed JSON value)
    batch,                \* local: assistant_message.tool_calls of this turn
    idx,                  \* local: position of the for loop in batch
    tool_args,            \* local: tool_args of the dispatch in progress (parsed)
    files_created,        \* self.files_created
    commands_executed,    \* self.commands_executed
    fs,                   \* the file system the tools act on
    sessions,             \* the records of the session directory
    now,                  \* the wall clock as last read, in seconds
    outcome,              \* the value returned by the run
    llm_calls,            \* completion-service calls made in the run
    outstanding,          \* completion-service calls awaiting a response
    running,              \* ids of the tool calls being dispatched
    dispatched,           \* log of the dispatches begun, in order
    next_id,              \* the completion service's tool-call id counter
    store_log,            \* log of the calls made on the session store
    writers,              \* the update_session calls in progress, by context
    terminal,             \* the subprocess of TerminalExecutor.execute
    manager,              \* the AutonomousManager objects and their store
    run                   \* the calls of execute_autonomous_task on the agent

vars == <<pc, max_iterations, project_session_id, task, conversation_history,
          iteration, task_complete, completion_info, batch, idx, tool_args,
          files_created, commands_executed, fs, sessions, now, outcome,
          llm_calls, outstanding, running, dispatched, next_id, store_log,
          writers, terminal, manager, run>>

\* the variables outside the agent loop and the session store
side_vars == <<writers, terminal, manager, run>>

\* ---------------------------------------------------------------- bounds
MaxIter == 3
MaxCalls == 2
MaxClock == 1
MaxToolCalls == 3
MaxOps == 4
MaxRuns == 2
MaxActions == 2
MaxHours == 2
MaxManagerCalls == 4

\* ----------------------------------------------------------------- texts
None == <<"None">>
Sentinel == "TASK_COMPLETE:"
Quote == "\""

Truthy(v) == v # None /\ v # <<>>

\* str.startswith
StartsWith(text, atom) == Len(text) > 0 /\ text[1] = atom

\* str.replace(atom, ""): every occurrence is removed
Replace(text, atom) == SelectSeq(text, LAMBDA a : a # atom)

\* Path(p).parent and Path(p).name for texts of the form d / f
Parent(p) == IF Len(p) >= 3 THEN SubSeq(p, 1, Len(p) - 2) ELSE <<".">>
Name(p) == <<p[Len(p)]>>

\* ------------------------------------------------------------------ JSON
\* A parsed dict is a sequence of <<key, value>> pairs in insertion order;
\* a value is a text or None.
EmptyDict == <<>>

DictGet(d, k) ==
    IF \E i \in 1..Len(d) : d[i][1] = k
    THEN d[CHOOSE i \in 1..Len(d) :
               d[i][1] = k /\ \A j \in (i+1)..Len(d) : d[j][1] # k][2]
    ELSE None

\* json.dumps of one value
DumpsValue(v) == IF v = None THEN <<"null">> ELSE <<Quote>> \o v \o <<Quote>>

RECURSIVE DumpsMembers(_)
DumpsMembers(d) ==
    IF d = <<>> THEN <<>>
    ELSE <<d[1][1], ":">> \o DumpsValue(d[1][2])
         \o (IF Len(d) > 1 THEN <<",">> ELSE <<>>)
         \o DumpsMembers(Tail(d))

\* json.dumps of a dict
JsonDumps(d) == <<"{">> \o DumpsMembers(d) \o <<"}">>

\* the tools whose dispatch reads tool_args with .get (lines 333-369)
ArgReadingTools ==
    {"execute_command", "create_file", "read_file", "create_directory",
     "list_directory", "check_browser_console"}

\* Results of json.loads: ok = FALSE is JSONDecodeError; isdict = FALSE is a
\* JSON value that is not an object (a number), kept as its text in v.
JsonError == [ok |-> FALSE, isdict |-> FALSE, d |-> EmptyDict]
JsonNonDict(t) == [ok |-> TRUE, isdict |-> FALSE, d |-> EmptyDict, v |-> t]
JsonDict(d) == [ok |-> TRUE, isdict |-> TRUE, d |-> d]

Numbers == {"0", "5"}

\* index of the first Quote atom of t at or after i, 0 if none
RECURSIVE FindQuote(_, _)
FindQuote(t, i) ==
    IF i > Len(t) THEN 0
    ELSE IF t[i] = Quote THEN i ELSE FindQuote(t, i + 1)

\* the members of an object, from position i, after the pairs acc
RECURSIVE ParseMembers(_, _, _)
ParseMembers(t, i, acc) ==
    IF i + 2 > Len(t) \/ t[i + 1] # ":" THEN JsonError
    ELSE
      LET key == t[i]
          isStr == t[i + 2] = Quote
          q == IF isStr THEN FindQuote(t, i + 3) ELSE 0
          val == IF isStr /\ q > 0 THEN SubSeq(t, i + 3, q - 1) ELSE None
          nxt == IF isStr THEN q + 1 ELSE i + 3
      IN  IF isStr /\ q = 0 THEN JsonError
          ELSE IF ~isStr /\ t[i + 2] # "null" THEN JsonError
          ELSE IF nxt > Len(t) THEN JsonError
          ELSE IF t[nxt] = "}" THEN
                 (IF nxt = Len(t) THEN JsonDict(Append(acc, <<key, val>>))
                  ELSE JsonError)
          ELSE IF t[nxt] = "," THEN
                 ParseMembers(t, nxt + 1, Append(acc, <<key, val>>))
          ELSE JsonError

\* json.loads
JsonLoads(t) ==
    IF Len(t) = 1 /\ t[1] \in Numbers THEN JsonNonDict(t)
    ELSE IF Len(t) < 2 \/ t[1] # "{" THEN JsonError
    ELSE IF t[2] = "}" THEN (IF Len(t) = 2 THEN JsonDict(EmptyDict) ELSE JsonError)
    ELSE ParseMembers(t, 2, <<>>)

\* ----------------------------------------------------------- file system
\* fs.dirs is the set of directories, fs.files maps a file path to its
\* content.  "." always exists.
Cwd == <<".">>

IsDir(f, p) == p = Cwd \/ p \in f.dirs
IsFile(f, p) == p \in DOMAIN f.files

\* Path(p).mkdir(parents=True, exist_ok=True)
MkdirBlocked(f, p) == IsFile(f, p) \/ IsFile(f, Parent(p))
Mkdir(f, p) == [f EXCEPT !.dirs = @ \cup ({p, Parent(p)} \ {Cwd})]

\* a set as a sequence, in an order the model fixes
RECURSIVE SetToSeq(_)
SetToSeq(S) ==
    IF S = {} THEN <<>>
    ELSE LET x == CHOOSE y \in S : TRUE IN <<x>> \o SetToSeq(S \ {x})

RECURSIVE Flatten(_)
Flatten(ss) == IF ss = <<>> THEN <<>> ELSE ss[1] \o Flatten(Tail(ss))

\* ----------------------------------------------------------------- tools
\* Every tool returns [result |-> text, fs |-> file system after the call].
\* env is what the operating system does to the call: "ok", "fail" (an
\* OSError, or a non-zero exit code), "timeout" (the command outlives its
\* timeout).
Ret(text, f) == [result |-> text, fs |-> f]

HasAtom(text, S) == \E i \in 1..Len(text) : text[i] \in S

CommandTimeout(command) ==
    IF HasAtom(command, {"npm", "npx", "install"}) THEN 600 ELSE 60

\* TerminalExecutor.execute, lines 69-72: the process is killed and reaped
\* and TimeoutError is raised
OnTimeout_ExitCode(timeout) ==
    [raised |-> FALSE, exit_code |-> -9, stdout |-> <<>>, stderr |-> <<>>,
     proc |-> "killed"]
OnTimeout(timeout) ==
    [raised |-> TRUE,
     error |-> <<"Command timed out after ", ToString(timeout), " seconds">>,
     proc |-> "killed"]

\* TerminalExecutor.execute once the subprocess is started (lines 63-84):
\* the tuple it returns, or the exception it raises; proc is what became of
\* the process
terminal_execute(command, timeout, env) ==
    IF env = "timeout" THEN OnTimeout(timeout)
    ELSE IF env = "fail"
    THEN [raised |-> FALSE, exit_code |-> 1, stdout |-> <<>>, stderr |-> <<"err">>,
          proc |-> "exited"]
    ELSE [raised |-> FALSE, exit_code |-> 0, stdout |-> <<>>, stderr |-> <<>>,
          proc |-> "exited"]

\* AutonomousAgent.execute_command, lines 238-246: the result text
CommandText(res) ==
    IF res.raised THEN <<"Error executing command: ">> \o res.error
    ELSE <<"Exit code: ", ToString(res.exit_code), "\n">>
         \o (IF res.stdout # <<>> THEN <<"STDOUT:\n">> \o res.stdout \o <<"\n">>
              ELSE <<>>)
         \o (IF res.stderr # <<>> THEN <<"STDERR:\n">> \o res.stderr \o <<"\n">>
              ELSE <<>>)

execute_command(command, f, env) ==
    IF command = None
    THEN Ret(<<"Error executing command: ", "TypeError">>, f)
    ELSE Ret(CommandText(terminal_execute(command, CommandTimeout(command), env)), f)

create_file(file_path, content, f, env) ==
    IF file_path = None
    THEN Ret(<<"Error creating file: ", "TypeError">>, f)
    ELSE IF env = "fail" \/ MkdirBlocked(f, Parent(file_path))
    THEN Ret(<<"Error creating file: ", "OSError">>, f)
    ELSE LET g == Mkdir(f, Parent(file_path))
         IN  IF content = None
             THEN Ret(<<"Error creating file: ", "TypeError">>, g)
             ELSE IF IsDir(g, file_path)
             THEN Ret(<<"Error creating file: ", "IsADirectoryError">>, g)
             ELSE Ret(<<"Successfully created file: ">> \o file_path,
                      [g EXCEPT !.files = (file_path :> content) @@ @])

read_file(file_path, f, env) ==
    IF file_path = None
    THEN Ret(<<"Error reading file: ", "TypeError">>, f)
    ELSE IF env = "fail" \/ ~IsFile(f, file_path)
    THEN Ret(<<"Error reading file: ", "OSError">>, f)
    ELSE Ret(f.files[file_path], f)

create_directory(directory_path, f, env) ==
    IF directory_path = None
    THEN Ret(<<"Error creating directory: ", "TypeError">>, f)
    ELSE IF env = "fail" \/ MkdirBlocked(f, directory_path)
    THEN Ret(<<"Error creating directory: ", "OSError">>, f)
    ELSE Ret(<<"Successfully created directory: ">> \o directory_path,
             Mkdir(f, directory_path))

list_directory(directory_path, f, env) ==
    IF directory_path = None
    THEN Ret(<<"Error listing directory: ", "TypeError">>, f)
    ELSE IF env = "fail" \/ ~IsDir(f, directory_path)
    THEN Ret(<<"Error listing directory: ", "OSError">>, f)
    ELSE LET subdirs == {d \in f.dirs : Parent(d) = directory_path}
             files == {p \in DOMAIN f.files : Parent(p) = directory_path}
             line(tag, p) == <<"  [", tag, "] ">> \o Name(p) \o <<"\n">>
         IN  Ret(<<"Contents of ">> \o directory_path \o <<":\n">>
                 \o Flatten([i \in 1..Cardinality(subdirs) |->
                               line("DIR", SetToSeq(subdirs)[i])])
                 \o Flatten([i \in 1..Cardinality(files) |->
                               line("FILE", SetToSeq(files)[i])]), f)

check_browser_console(url, f, env) ==
    IF env = "timeout"
    THEN Ret(<<"Error checking browser: ", "Exception">>, f)
    ELSE IF env = "fail"
    THEN Ret(<<"Failed to test: ", "Unknown error">>, f)
    ELSE Ret(<<"Browser Test Results for ">> \o url
             \o <<":\n", "NO ERRORS! The web app is working perfectly!\n">>, f)

\* _execute_tool, the part that runs the tool (lines 346-373); args is the
\* parsed argument value, a dict for every tool that reads it
ExecuteTool(tool_name, args, f, env) ==
    CASE tool_name = "execute_command" ->
           execute_command(DictGet(args.d, "command"), f, env)
      [] tool_name = "create_file" ->
           create_file(DictGet(args.d, "file_path"), DictGet(args.d, "content"), f, env)
      [] tool_name = "read_file" ->
           read_file(DictGet(args.d, "file_path"), f, env)
      [] tool_name = "create_directory" ->
           create_directory(DictGet(args.d, "directory_path"), f, env)
      [] tool_name = "list_directory" ->
           list_directory(DictGet(args.d, "directory_path"), f, env)
      [] tool_name = "check_browser_console" ->
           check_browser_console(DictGet(args.d, "url"), f, env)
      [] tool_name = "task_complete" ->
           Ret(<<Sentinel>> \o (IF args.isdict THEN JsonDumps(args.d) ELSE args.v), f)
      [] OTHER -> Ret(<<"Unknown tool: ", tool_name>>, f)

\* _execute_tool raises: tool_args.get on a value that is not a dict
\* (lines 333-369)
DispatchRaises(tool_name, args) == ~args.isdict /\ tool_name \in ArgReadingTools

\* what the operating system can do to a call of the tool
EnvChoices(tool_name) ==
    CASE tool_name \in {"execute_command", "check_browser_console"} ->
           {"ok", "fail", "timeout"}
      [] tool_name \in {"create_file", "read_file", "create_directory",
                        "list_directory"} -> {"ok", "fail"}
      [] OTHER -> {"ok"}

\* _execute_tool, the bookkeeping before the tool runs (lines 333-338)
TrackFiles(tool_name, args, files) ==
    IF tool_name = "create_file"
    THEN Append(files, DictGet(args, "file_path")) ELSE files

TrackCommands(tool_name, args, commands) ==
    IF tool_name = "execute_command"
    THEN Append(commands, DictGet(args, "command")) ELSE commands

\* --------------------------------------------------------- session store
\* sessions maps a session id to the record stored in its file.
EmptyStore == [sid \in {} |-> 0]

Stamp(t) == <<ToString(t)>>

\* What the file of a session id is: absent ("missing"), a stored record
\* ("valid"), content that json.load rejects ("corrupt"), or a file that
\* open() refuses ("unreadable").  A damaged file is [damage |-> kind].
FileState(store, session_id) ==
    IF session_id \notin DOMAIN store THEN "missing"
    ELSE IF "damage" \in DOMAIN store[session_id] THEN store[session_id].damage
    ELSE "valid"

\* the value load_session returns for None
NotFound == [found |-> FALSE, raised |-> FALSE]

\* the except clause of load_session (lines 70-72)
OnLoadError_Propagates == [found |-> FALSE, raised |-> TRUE]
OnLoadError == NotFound

\* ProjectSession.load_session; raised says that an exception left it
load_session(store, session_id) ==
    IF FileState(store, session_id) = "missing" THEN NotFound
    ELSE IF FileState(store, session_id) # "valid" THEN OnLoadError
    ELSE [found |-> TRUE, raised |-> FALSE, data |-> store[session_id]]

\* ProjectSession._save_session; a failing open() is logged and swallowed
SaveSession(store, session_id, session_data) ==
    IF FileState(store, session_id) = "unreadable" THEN store
    ELSE (session_id :> session_data) @@ store

\* ProjectSession.create_session: [session_id, sessions]
create_session(store, project_name, project_path, initial_prompt, t) ==
    LET session_id == project_name \o <<"_">> \o Stamp(t)
        session_data == [session_id |-> session_id,
                         project_name |-> project_name,
                         project_path |-> project_path,
                         created_at |-> Stamp(t),
                         updated_at |-> Stamp(t),
                         initial_prompt |-> initial_prompt,
                         prompts |-> <<initial_prompt>>,
                         files_created |-> <<>>,
                         commands_executed |-> <<>>,
                         status |-> "active",
                         iterations |-> 0]
    IN  [session_id |-> session_id,
         sessions |-> SaveSession(store, session_id, session_data)]

\* list(set(xs)); the order of the result is the one the model fixes
Dedup(xs) == SetToSeq({xs[i] : i \in 1..Len(xs)})

\* An argument of update_session that is not supplied is None for
\* new_prompt, the empty list for files and commands (the code tests their
\* truth), NoStatus for status and -1 for iterations.
NoStatus == "None"

\* lines 92-93
AppendPrompt(d, new_prompt) ==
    IF Truthy(new_prompt) THEN [d EXCEPT !.prompts = Append(@, new_prompt)] ELSE d

\* lines 95-98
ExtendFiles_NoDedup(d, files) ==
    IF files # <<>> THEN [d EXCEPT !.files_created = @ \o files] ELSE d
ExtendFiles(d, files) ==
    IF files # <<>> THEN [d EXCEPT !.files_created = Dedup(@ \o files)] ELSE d

\* lines 100-101
ExtendCommands(d, commands) ==
    IF commands # <<>> THEN [d EXCEPT !.commands_executed = @ \o commands] ELSE d

\* lines 103-104
SetStatus(d, status) ==
    IF status # NoStatus /\ status # "" THEN [d EXCEPT !.status = status] ELSE d

\* lines 106-107
SetIterations_Default(d, iters) ==
    [d EXCEPT !.iterations = IF iters # -1 THEN iters ELSE 0]
SetIterations(d, iters) ==
    IF iters # -1 THEN [d EXCEPT !.iterations = iters] ELSE d

\* ProjectSession.update_session after its load_session (lines 86-110):
\* the store after the record that was loaded is changed and saved
apply_update(store, session_id, loaded, new_prompt, files, commands, status, iters, t) ==
    IF ~loaded.found THEN store
    ELSE
      LET d1 == [loaded.data EXCEPT !.updated_at = Stamp(t)]
          d2 == AppendPrompt(d1, new_prompt)
          d3 == ExtendFiles(d2, files)
          d4 == ExtendCommands(d3, commands)
          d5 == SetStatus(d4, status)
          d6 == SetIterations(d5, iters)
      IN  SaveSession(store, session_id, d6)

\* ProjectSession.update_session: the store after the call
update_session(store, session_id, new_prompt, files, commands, status, iters, t) ==
    apply_update(store, session_id, load_session(store, session_id),
                 new_prompt, files, commands, status, iters, t)

\* ProjectSession.mark_complete and mark_failed
mark_complete(store, session_id, t) ==
    update_session(store, session_id, None, <<>>, <<>>, "complete", -1, t)
mark_failed(store, session_id, t) ==
    update_session(store, session_id, None, <<>>, <<>>, "failed", -1, t)

\* ProjectSession.get_session_context
get_session_context(store, session_id) ==
    LET loaded == load_session(store, session_id)
    IN  IF ~loaded.found THEN <<>>
        ELSE LET d == loaded.data
             IN  <<"CONTINUING PROJECT SESSION: ">> \o d.project_name
                 \o <<"Project Path: ">> \o d.project_path
                 \o <<"Created: ">> \o d.created_at
                 \o <<"Last Updated: ">> \o d.updated_at
                 \o <<"Status: ", d.status>>
                 \o <<"Total Iterations: ", ToString(d.iterations)>>
                 \o <<"PREVIOUS PROMPTS:">> \o Flatten(d.prompts)
                 \o <<"FILES CREATED (", ToString(Len(d.files_created)), "):">>
                 \o Flatten(d.files_created)
                 \o <<"RECENT COMMANDS (", ToString(Len(d.commands_executed)), "):">>
                 \o Flatten(d.commands_executed)

\* ------------------------------------------------- the completion service
\* The texts the model draws its inputs from.
DirX == <<"x">>
FileXY == <<"x", "/", "y">>
Tasks == {<<"build x">>}

Call(name, arguments) == [name |-> name, arguments |-> arguments]

\* The tool calls a response may carry: name and argument JSON.
ToolCallChoices ==
    { Call("create_directory", JsonDumps(<< <<"directory_path", DirX>> >>)),
      Call("create_file", JsonDumps(<< <<"file_path", FileXY>>, <<"content", <<"c">>>> >>)),
      Call("create_file", <<"{", "file_path", ":">>),
      Call("execute_command", JsonDumps(<< <<"command", <<"ls">>>> >>)),
      Call("task_complete", JsonDumps(<< <<"summary", <<"done">>>>, <<"project_path", DirX>> >>)) }

\* assistant_message.content: None or a text
ContentChoices == {None, <<"which one?">>}

\* all sequences over S of length 0..n
RECURSIVE SeqsUpTo(_, _)
SeqsUpTo(S, n) ==
    IF n = 0 THEN {<<>>}
    ELSE LET shorter == SeqsUpTo(S, n - 1)
         IN  shorter \cup {Append(s, x) : s \in {t \in shorter : Len(t) = n - 1}, x \in S}

\* The responses of the completion service: content and tool calls.  A
\* response that carries tool calls has no content here.
Responses ==
    {[content |-> c, calls |-> <<>>] : c \in ContentChoices}
    \cup {[content |-> None, calls |-> cs] : cs \in SeqsUpTo(ToolCallChoices, MaxCalls) \ {<<>>}}

\* the service gives every tool call a fresh id
WithIds(calls, first) ==
    [i \in 1..Len(calls) |->
        [id |-> first + i, name |-> calls[i].name, arguments |-> calls[i].arguments]]

\* ------------------------------------------------------------ the history
SystemTurn(content) == [role |-> "system", content |-> content]
UserTurn(content) == [role |-> "user", content |-> content]
AssistantTurn(content, tool_calls) ==
    [role |-> "assistant", content |-> content, tool_calls |-> tool_calls]
ToolTurn(id, content) == [role |-> "tool", tool_call_id |-> id, content |-> content]

Corrective == <<"STOP! You MUST call the actual functions NOW.">>

SystemPrompt == <<"SYSTEM PROMPT">>

\* ------------------------------------------------------------------ Init
\* no update_session call is in progress in any execution context
NoWriters == [c \in {} |-> 0]

\* no subprocess has been started and no call of execute has finished
NoProcess == [state |-> "none", os_type |-> "linux", log |-> <<>>]

\* no AutonomousManager has been constructed
NoManager == [inst |-> <<>>]

\* the first call of execute_autonomous_task on the object: number n, and
\* the number of dispatches logged before it
FirstRun == [n |-> 1, first |-> 0]

InitSide ==
    /\ writers = NoWriters
    /\ terminal = NoProcess
    /\ manager = NoManager
    /\ run = FirstRun

NoOutcome == [k \in {} |-> 0]

\* The session directory before the run: empty, or holding the session of an
\* earlier run that the agent was constructed to resume.
OldSession == create_session(EmptyStore, DirX, DirX, <<"first task">>, 0)

\* the variables of the agent other than pc
agent_vars ==
    <<max_iterations, project_session_id, task, conversation_history, iteration,
      task_complete, completion_info, batch, idx, tool_args, files_created,
      commands_executed, fs, outcome, llm_calls, outstanding, running,
      dispatched, next_id>>

\* what the agent's variables are while something else is modelled
IdleAgent ==
    /\ max_iterations = MaxIter
    /\ project_session_id = None
    /\ task = None
    /\ conversation_history = <<>>
    /\ iteration = 0
    /\ task_complete = FALSE
    /\ completion_info = JsonDict(EmptyDict)
    /\ batch = <<>>
    /\ idx = 0
    /\ tool_args = JsonDict(EmptyDict)
    /\ files_created = <<>>
    /\ commands_executed = <<>>
    /\ fs = [dirs |-> {}, files |-> [p \in {} |-> <<>>]]
    /\ outcome = NoOutcome
    /\ llm_calls = 0
    /\ outstanding = 0
    /\ running = {}
    /\ dispatched = <<>>
    /\ next_id = 0

Init ==
    /\ pc = "idle"
    /\ max_iterations \in 0..MaxIter
    /\ \/ sessions = EmptyStore /\ project_session_id = None
       \/ sessions = OldSession.sessions /\ project_session_id = OldSession.session_id
    /\ task = None
    /\ conversation_history = <<>>
    /\ iteration = 0
    /\ task_complete = FALSE
    /\ completion_info = JsonDict(EmptyDict)
    /\ batch = <<>>
    /\ idx = 0
    /\ tool_args = JsonDict(EmptyDict)
    /\ files_created = <<>>
    /\ commands_executed = <<>>
    /\ fs = [dirs |-> {}, files |-> [p \in {} |-> <<>>]]
    /\ now = 0
    /\ outcome = NoOutcome
    /\ llm_calls = 0
    /\ outstanding = 0
    /\ running = {}
    /\ dispatched = <<>>
    /\ next_id = 0
    /\ store_log = <<>>
    /\ InitSide

\* --------------------------------------------------------------- actions
\* the except clause of the loop body (lines 525-533)
Aborted_Stale(error) ==
    [success |-> task_complete, error |-> error, iterations |-> iteration - 1,
     session_id |-> project_session_id]
Aborted(error) ==
    [success |-> FALSE, error |-> error, iterations |-> iteration,
     session_id |-> project_session_id]

\* the while condition (line 420)
LoopCondition_OffByOne == iteration <= max_iterations /\ ~task_complete
LoopCondition == iteration < max_iterations /\ ~task_complete

\* the clarifying-question test (line 501)
ClarifyingQuestion_Never(content) == iteration = 0 /\ Truthy(content)
ClarifyingQuestion(content) == iteration = 1 /\ Truthy(content)

\* the tool call the for loop takes at position i of the batch (line 469)
NextCall_Reversed(calls, i) == calls[Len(calls) + 1 - i]
NextCall(calls, i) == calls[i]

\* what follows a response without tool calls past the clarifying-question
\* case (lines 520-523): continue or break
AfterCorrective_Break == "post"
AfterCorrective_OffByOne == IF iteration + 1 < max_iterations THEN "while" ELSE "post"
AfterCorrective == IF iteration < max_iterations THEN "while" ELSE "post"

\* lines 388-418: the conversation is seeded and the locals are initialised
Start(t, continue_session) ==
    /\ pc = "idle"
    /\ LET session_context ==
               IF continue_session /\ Truthy(project_session_id)
               THEN get_session_context(sessions, project_session_id) ELSE <<>>
           system_content ==
               IF Truthy(session_context)
               THEN SystemPrompt \o <<"\n\n">> \o session_context ELSE SystemPrompt
       IN  conversation_history' = <<SystemTurn(system_content), UserTurn(t)>>
    /\ task' = t
    /\ iteration' = 0
    /\ task_complete' = FALSE
    /\ completion_info' = JsonDict(EmptyDict)
    /\ pc' = "while"
    /\ UNCHANGED <<side_vars, store_log, max_iterations, project_session_id, batch, idx, tool_args,
                   files_created, commands_executed, fs, sessions, now, outcome,
                   llm_calls, outstanding, running, dispatched, next_id>>

\* lines 420-439: the loop is entered and the completion service is called
CallCompletion ==
    /\ pc = "while"
    /\ LoopCondition
    /\ iteration' = iteration + 1
    /\ llm_calls' = llm_calls + 1
    /\ outstanding' = outstanding + 1
    /\ pc' = "await"
    /\ UNCHANGED <<side_vars, store_log, max_iterations, project_session_id, task, conversation_history,
                   task_complete, completion_info, batch, idx, tool_args,
                   files_created, commands_executed, fs, sessions, now, outcome,
                   running, dispatched, next_id>>

\* lines 432-439 raise; lines 525-533 return
CompletionThrows ==
    /\ pc = "await"
    /\ outstanding' = outstanding - 1
    /\ outcome' = Aborted(<<"APIError">>)
    /\ pc' = "returned"
    /\ UNCHANGED <<side_vars, store_log, max_iterations, project_session_id, task, conversation_history,
                   iteration, task_complete, completion_info, batch, idx, tool_args,
                   files_created, commands_executed, fs, sessions, now,
                   llm_calls, running, dispatched, next_id>>

\* lines 441-468 and 499-523: the response is appended to the history; with
\* tool calls the for loop starts, without them the loop breaks (clarifying
\* question) or the corrective message is appended.  The service issues at
\* most MaxToolCalls tool calls in a run.
CompletionReturns(resp) ==
    /\ pc = "await"
    /\ next_id + Len(resp.calls) <= MaxToolCalls
    /\ outstanding' = outstanding - 1
    /\ LET tool_calls == WithIds(resp.calls, next_id)
           assistant == AssistantTurn(resp.content, tool_calls)
       IN  /\ next_id' = next_id + Len(tool_calls)
           /\ IF tool_calls # <<>>
              THEN /\ conversation_history' = Append(conversation_history, assistant)
                   /\ batch' = tool_calls
                   /\ idx' = 1
                   /\ pc' = "for"
              ELSE IF ClarifyingQuestion(resp.content)
              THEN /\ conversation_history' = Append(conversation_history, assistant)
                   /\ pc' = "post"
                   /\ UNCHANGED <<batch, idx>>
              ELSE /\ conversation_history' =
                          conversation_history \o <<assistant, UserTurn(Corrective)>>
                   /\ pc' = AfterCorrective
                   /\ UNCHANGED <<batch, idx>>
    /\ UNCHANGED <<side_vars, store_log, max_iterations, project_session_id, task, iteration,
                   task_complete, completion_info, tool_args, files_created,
                   commands_executed, fs, sessions, now, outcome, llm_calls,
                   running, dispatched>>

\* lines 469-479 and 333-338: the arguments of the next tool call are parsed
\* and the dispatcher is entered; a parse failure, or the dispatcher reading
\* arguments that are not a dict, raises into lines 525-533
ToolBegin ==
    /\ pc = "for"
    /\ running = {}
    /\ LET tool_call == NextCall(batch, idx)
           parsed == JsonLoads(tool_call.arguments)
       IN  IF ~parsed.ok \/ DispatchRaises(tool_call.name, parsed)
           THEN /\ outcome' = Aborted(IF parsed.ok THEN <<"AttributeError">>
                                                   ELSE <<"JSONDecodeError">>)
                /\ pc' = "returned"
                /\ tool_args' = IF parsed.ok THEN parsed ELSE tool_args
                /\ UNCHANGED <<files_created, commands_executed,
                               running, dispatched>>
           ELSE /\ tool_args' = parsed
                /\ files_created' = TrackFiles(tool_call.name, parsed.d, files_created)
                /\ commands_executed' =
                       TrackCommands(tool_call.name, parsed.d, commands_executed)
                /\ running' = running \cup {tool_call.id}
                /\ dispatched' = Append(dispatched,
                       [id |-> tool_call.id, name |-> tool_call.name,
                        args |-> parsed.d, dirs |-> fs.dirs])
                /\ pc' = "tool"
                /\ UNCHANGED outcome
    /\ UNCHANGED <<side_vars, store_log, max_iterations, project_session_id, task, conversation_history,
                   iteration, task_complete, completion_info, batch, idx,
                   fs, sessions, now, llm_calls, outstanding, next_id>>

\* the position after the tool call at index i of the batch (line 469)
AfterTool_SkipLast(i) == IF i + 1 < Len(batch) THEN "for" ELSE "while"
AfterTool(i) == IF i < Len(batch) THEN "for" ELSE "while"

\* lines 346-373 and 482-498: the tool runs, its result is scanned for the
\* sentinel and appended to the history
ToolReturn(env) ==
    /\ pc = "tool"
    /\ env \in EnvChoices(NextCall(batch, idx).name)
    /\ LET tool_call == NextCall(batch, idx)
           r == ExecuteTool(tool_call.name, tool_args, fs, env)
           sentinel == StartsWith(r.result, Sentinel)
           info == JsonLoads(Replace(r.result, Sentinel))
       IN  /\ fs' = r.fs
           /\ running' = running \ {tool_call.id}
           /\ task_complete' = (task_complete \/ sentinel)
           /\ IF sentinel /\ ~info.ok
              THEN /\ outcome' = Aborted(<<"JSONDecodeError">>)
                   /\ pc' = "returned"
                   /\ UNCHANGED <<completion_info, conversation_history, idx>>
              ELSE /\ completion_info' = IF sentinel THEN info ELSE completion_info
                   /\ conversation_history' =
                          Append(conversation_history, ToolTurn(tool_call.id, r.result))
                   /\ idx' = idx + 1
                   /\ pc' = AfterTool(idx)
                   /\ UNCHANGED outcome
    /\ UNCHANGED <<side_vars, store_log, max_iterations, project_session_id, task, iteration, batch,
                   tool_args, files_created, commands_executed, sessions, now,
                   llm_calls, outstanding, dispatched, next_id>>

\* the Run Outcome built at lines 556-565
RunOutcome(session_id) ==
    [success |-> task_complete,
     summary |-> IF DictGet(completion_info.d, "summary") = None
                 THEN <<"Task completed">>
                 ELSE DictGet(completion_info.d, "summary"),
     project_path |-> DictGet(completion_info.d, "project_path"),
     iterations |-> iteration,
     max_iterations_reached |-> iteration >= max_iterations,
     session_id |-> session_id,
     files_created |-> Len(files_created),
     commands_executed |-> Len(commands_executed)]

\* the test that guards the session bookkeeping (line 536)
SaveCondition_AnySession(project_path) ==
    Truthy(project_session_id) \/ (task_complete /\ Truthy(project_path))
SaveCondition(project_path) == task_complete /\ Truthy(project_path)

\* lines 535-588: the loop is over; the session is created or updated and
\* the Run Outcome is returned.  t is the wall clock read by the session
\* store, which never runs backwards.
Finish(t) ==
    /\ \/ pc = "post"
       \/ pc = "while" /\ ~LoopCondition
    /\ t >= now
    /\ now' = t
    /\ IF ~completion_info.isdict
       THEN /\ pc' = "raised"
            /\ UNCHANGED <<project_session_id, sessions, outcome>>
       ELSE
         LET project_path == DictGet(completion_info.d, "project_path")
             created == create_session(sessions, Name(project_path), project_path, task, t)
             create == ~Truthy(project_session_id)
             session_id == IF create THEN created.session_id ELSE project_session_id
             store == IF create THEN created.sessions ELSE sessions
         IN  IF SaveCondition(project_path)
             THEN /\ project_session_id' = session_id
                  /\ sessions' = update_session(store, session_id, None,
                                     files_created, commands_executed,
                                     IF task_complete THEN "complete"
                                                      ELSE "in_progress",
                                     iteration, t)
                  /\ outcome' = RunOutcome(session_id)
                  /\ pc' = "returned"
             ELSE /\ outcome' = RunOutcome(project_session_id)
                  /\ pc' = "returned"
                  /\ UNCHANGED <<project_session_id, sessions>>
    /\ UNCHANGED <<side_vars, store_log, max_iterations, task, conversation_history, iteration,
                   task_complete, completion_info, batch, idx, tool_args,
                   files_created, commands_executed, fs, llm_calls,
                   outstanding, running, dispatched, next_id>>

Next ==
    \/ \E t \in Tasks, c \in BOOLEAN : Start(t, c)
    \/ CallCompletion
    \/ CompletionThrows
    \/ \E resp \in Responses : CompletionReturns(resp)
    \/ ToolBegin
    \/ \E env \in {"ok", "fail", "timeout"} : ToolReturn(env)
    \/ \E t \in 0..MaxClock : Finish(t)

Spec == Init /\ [][Next]_vars

\* ------------------------------------------- the loop, on a wider input set
\* The responses may also carry argument JSON that parses to a value that is
\* not an object, and the agent may have been constructed with a session id
\* that the session directory does not hold.
ToolCallChoicesWide ==
    { Call("create_file", JsonDumps(<< <<"file_path", FileXY>>, <<"content", <<"c">>>> >>)),
      Call("create_file", JsonDumps(<< <<"content", <<"c">>>> >>)),
      Call("execute_command", JsonDumps(<< <<"command", <<"ls">>>> >>)),
      Call("list_directory", <<"5">>),
      Call("frobnicate", <<"5">>),
      Call("task_complete", <<"5">>),
      Call("task_complete", JsonDumps(<< <<"summary", <<"done">>>>, <<"project_path", DirX>> >>)) }

ResponsesWide ==
    {[content |-> c, calls |-> <<>>] : c \in ContentChoices}
    \cup {[content |-> None, calls |-> cs] :
              cs \in SeqsUpTo(ToolCallChoicesWide, MaxCalls) \ {<<>>}}

DanglingId == <<"gone", "_", "0">>

InitWide ==
    /\ pc = "idle"
    /\ max_iterations \in 0..MaxIter
    /\ \/ sessions = EmptyStore /\ project_session_id \in {None, DanglingId}
       \/ sessions = OldSession.sessions
          /\ project_session_id \in {None, OldSession.session_id}
    /\ task = None
    /\ conversation_history = <<>>
    /\ iteration = 0
    /\ task_complete = FALSE
    /\ completion_info = JsonDict(EmptyDict)
    /\ batch = <<>>
    /\ idx = 0
    /\ tool_args = JsonDict(EmptyDict)
    /\ files_created = <<>>
    /\ commands_executed = <<>>
    /\ fs = [dirs |-> {}, files |-> [p \in {} |-> <<>>]]
    /\ now = 0
    /\ outcome = NoOutcome
    /\ llm_calls = 0
    /\ outstanding = 0
    /\ running = {}
    /\ dispatched = <<>>
    /\ next_id = 0
    /\ store_log = <<>>
    /\ InitSide

NextWide ==
    \/ \E t \in Tasks, c \in BOOLEAN : Start(t, c)
    \/ CallCompletion
    \/ CompletionThrows
    \/ \E resp \in ResponsesWide : CompletionReturns(resp)
    \/ ToolBegin
    \/ \E env \in {"ok", "fail", "timeout"} : ToolReturn(env)
    \/ \E t \in 0..MaxClock : Finish(t)

SpecWide == InitWide /\ [][NextWide]_vars

\* The run under the assumption that every awaited call returns and the
\* coroutine is resumed: a step that can be taken is eventually taken.
SpecWideLive == SpecWide /\ WF_vars(NextWide)

\* --------------------------------------- several runs on one agent object
\* execute_autonomous_task is called again on the AutonomousAgent object
\* whose earlier call has returned, at most MaxRuns times in all.
InitRerun ==
    /\ pc = "idle"
    /\ max_iterations \in 1..2
    /\ sessions = EmptyStore
    /\ project_session_id = None
    /\ task = None
    /\ conversation_history = <<>>
    /\ iteration = 0
    /\ task_complete = FALSE
    /\ completion_info = JsonDict(EmptyDict)
    /\ batch = <<>>
    /\ idx = 0
    /\ tool_args = JsonDict(EmptyDict)
    /\ files_created = <<>>
    /\ commands_executed = <<>>
    /\ fs = [dirs |-> {}, files |-> [p \in {} |-> <<>>]]
    /\ now = 0
    /\ outcome = NoOutcome
    /\ llm_calls = 0
    /\ outstanding = 0
    /\ running = {}
    /\ dispatched = <<>>
    /\ next_id = 0
    /\ store_log = <<>>
    /\ InitSide

\* lines 388-418 on an object that has run before: the conversation and the
\* locals are initialised again; self.files_created, self.commands_executed
\* and self.project_session_id are what the earlier run left
StartAgain(t, continue_session) ==
    /\ pc = "returned"
    /\ run.n < MaxRuns
    /\ LET session_context ==
               IF continue_session /\ Truthy(project_session_id)
               THEN get_session_context(sessions, project_session_id) ELSE <<>>
           system_content ==
               IF Truthy(session_context)
               THEN SystemPrompt \o <<"\n\n">> \o session_context ELSE SystemPrompt
       IN  conversation_history' = <<SystemTurn(system_content), UserTurn(t)>>
    /\ task' = t
    /\ iteration' = 0
    /\ task_complete' = FALSE
    /\ completion_info' = JsonDict(EmptyDict)
    /\ pc' = "while"
    /\ outcome' = NoOutcome
    /\ llm_calls' = 0
    /\ run' = [n |-> run.n + 1, first |-> Len(dispatched)]
    /\ UNCHANGED <<writers, terminal, manager, store_log, max_iterations,
                   project_session_id, batch, idx, tool_args, files_created,
                   commands_executed, fs, sessions, now, outstanding, running,
                   dispatched, next_id>>

NextRerun ==
    \/ \E t \in Tasks, c \in BOOLEAN : Start(t, c)
    \/ \E t \in Tasks, c \in BOOLEAN : StartAgain(t, c)
    \/ CallCompletion
    \/ CompletionThrows
    \/ \E resp \in Responses : CompletionReturns(resp)
    \/ ToolBegin
    \/ \E env \in {"ok", "fail", "timeout"} : ToolReturn(env)
    \/ \E t \in 0..MaxClock : Finish(t)

SpecRerun == InitRerun /\ [][NextRerun]_vars

\* ------------------------------------------- the sentinel in other texts
\* The loop with texts that contain the sentinel prefix outside a
\* task_complete result: a file on disk whose content begins with it, and a
\* task_complete summary that quotes it.
SentinelFiles ==
    { <<Sentinel, "{", "}">>, <<Sentinel, "oops">>, <<"c">> }

SummaryWithSentinel == <<"see ", Sentinel, " in the log">>

ToolCallChoicesSentinel ==
    { Call("read_file", JsonDumps(<< <<"file_path", FileXY>> >>)),
      Call("execute_command", JsonDumps(<< <<"command", <<"ls">>>> >>)),
      Call("task_complete", JsonDumps(<< <<"summary", SummaryWithSentinel>>,
                                         <<"project_path", DirX>> >>)),
      Call("task_complete", JsonDumps(<< <<"summary", <<"done">>>>,
                                         <<"project_path", DirX>> >>)) }

ResponsesSentinel ==
    {[content |-> c, calls |-> <<>>] : c \in ContentChoices}
    \cup {[content |-> None, calls |-> cs] :
              cs \in SeqsUpTo(ToolCallChoicesSentinel, MaxCalls) \ {<<>>}}

InitSentinel ==
    /\ pc = "idle"
    /\ max_iterations \in 0..MaxIter
    /\ sessions = EmptyStore
    /\ project_session_id = None
    /\ task = None
    /\ conversation_history = <<>>
    /\ iteration = 0
    /\ task_complete = FALSE
    /\ completion_info = JsonDict(EmptyDict)
    /\ batch = <<>>
    /\ idx = 0
    /\ tool_args = JsonDict(EmptyDict)
    /\ files_created = <<>>
    /\ commands_executed = <<>>
    /\ \E content \in SentinelFiles :
           fs = [dirs |-> {DirX}, files |-> (FileXY :> content)]
    /\ now = 0
    /\ outcome = NoOutcome
    /\ llm_calls = 0
    /\ outstanding = 0
    /\ running = {}
    /\ dispatched = <<>>
    /\ next_id = 0
    /\ store_log = <<>>
    /\ InitSide

NextSentinel ==
    \/ \E t \in Tasks, c \in BOOLEAN : Start(t, c)
    \/ CallCompletion
    \/ CompletionThrows
    \/ \E resp \in ResponsesSentinel : CompletionReturns(resp)
    \/ ToolBegin
    \/ \E env \in {"ok", "fail", "timeout"} : ToolReturn(env)
    \/ \E t \in 0..MaxClock : Finish(t)

SpecSentinel == InitSentinel /\ [][NextSentinel]_vars

\* ------------------------------------------------- the command runner
\* AutonomousAgent.execute_command over TerminalExecutor.execute, one call
\* at a time: the subprocess is started, then it exits or outlives its
\* timeout.  terminal.log holds, for every finished call, what the operating
\* system did (env), what execute returned or raised (res) and the result
\* text of the tool.  At most MaxOps calls are made.
Commands == { <<"ls">>, <<"npm", " install">> }

InitTerminal ==
    /\ pc = "terminal"
    /\ IdleAgent
    /\ sessions = EmptyStore
    /\ now = 0
    /\ store_log = <<>>
    /\ writers = NoWriters
    /\ \E os \in {"linux", "windows"} :
           terminal = [state |-> "none", os_type |-> os, log |-> <<>>]
    /\ manager = NoManager
    /\ run = FirstRun

\* lines 229, 48-61: the timeout is chosen, sudo is prefixed, the
\* subprocess is started
TermSpawn(command, use_sudo) ==
    /\ pc = "terminal"
    /\ terminal.state # "running"
    /\ Len(terminal.log) < MaxOps
    /\ terminal' =
           [state |-> "running", os_type |-> terminal.os_type, log |-> terminal.log,
            command |-> IF use_sudo /\ terminal.os_type # "windows"
                        THEN <<"sudo ">> \o command ELSE command,
            timeout |-> CommandTimeout(command)]
    /\ UNCHANGED <<pc, agent_vars, sessions, now, store_log, writers, manager, run>>

\* lines 65-80 or 69-72, then 238-246: the process exits with a code
\* ("ok", "fail") or outlives the timeout ("timeout")
TermFinish(env) ==
    /\ pc = "terminal"
    /\ terminal.state = "running"
    /\ LET res == terminal_execute(terminal.command, terminal.timeout, env)
       IN  terminal' =
               [state |-> res.proc, os_type |-> terminal.os_type,
                log |-> Append(terminal.log,
                            [command |-> terminal.command, env |-> env, res |-> res,
                             text |-> CommandText(res)])]
    /\ UNCHANGED <<pc, agent_vars, sessions, now, store_log, writers, manager, run>>

NextTerminal ==
    \/ \E command \in Commands, use_sudo \in BOOLEAN : TermSpawn(command, use_sudo)
    \/ \E env \in {"ok", "fail", "timeout"} : TermFinish(env)

SpecTerminal == InitTerminal /\ [][NextTerminal]_vars

\* ------------------------------------------ the session store on its own
\* ProjectSession driven directly by its callers: every call is appended to
\* store_log with its arguments, the state of the file it met, what it
\* returned and whether an exception left it.  At most MaxOps calls are made.
FileA == <<"a.txt">>
FileB == <<"b.txt">>
FileC == <<"c.txt">>

Upd(p, f, c, s, i) ==
    [new_prompt |-> p, files |-> f, commands |-> c, status |-> s, iterations |-> i]

\* the arguments update_session is called with
UpdateChoices ==
    { Upd(<<"more">>, <<>>, <<>>, NoStatus, -1),
      Upd(<<>>, <<>>, <<>>, NoStatus, -1),
      Upd(None, <<FileA, FileB>>, <<>>, NoStatus, -1),
      Upd(None, <<FileB, FileC>>, <<>>, NoStatus, -1),
      Upd(None, <<>>, << <<"ls">> >>, NoStatus, -1),
      Upd(None, <<>>, <<>>, NoStatus, 2),
      Upd(<<"more">>, <<FileA>>, << <<"ls">> >>, "complete", 1) }

\* the session ids a caller passes: the stored ones and one that is not
StoreIds == DOMAIN sessions \cup {DanglingId}

InitStore ==
    /\ pc = "store"
    /\ max_iterations = MaxIter
    /\ sessions = EmptyStore
    /\ project_session_id = None
    /\ task = None
    /\ conversation_history = <<>>
    /\ iteration = 0
    /\ task_complete = FALSE
    /\ completion_info = JsonDict(EmptyDict)
    /\ batch = <<>>
    /\ idx = 0
    /\ tool_args = JsonDict(EmptyDict)
    /\ files_created = <<>>
    /\ commands_executed = <<>>
    /\ fs = [dirs |-> {}, files |-> [p \in {} |-> <<>>]]
    /\ now = 0
    /\ outcome = NoOutcome
    /\ llm_calls = 0
    /\ outstanding = 0
    /\ running = {}
    /\ dispatched = <<>>
    /\ next_id = 0
    /\ store_log = <<>>
    /\ InitSide

\* a call of create_session at clock reading t
StoreCreate(project_name, initial_prompt, t) ==
    /\ pc = "store"
    /\ Len(store_log) < MaxOps
    /\ t >= now
    /\ now' = t
    /\ LET created == create_session(sessions, project_name, project_name,
                                     initial_prompt, t)
       IN  /\ sessions' = created.sessions
           /\ store_log' = Append(store_log,
                  [op |-> "create", session_id |-> created.session_id,
                   file |-> FileState(sessions, created.session_id),
                   raised |-> FALSE])
    /\ UNCHANGED <<pc, side_vars, agent_vars>>

\* a call of update_session with the arguments a at clock reading t
StoreUpdate(session_id, a, t) ==
    /\ pc = "store"
    /\ Len(store_log) < MaxOps
    /\ session_id \in StoreIds
    /\ t >= now
    /\ now' = t
    /\ sessions' = update_session(sessions, session_id, a.new_prompt, a.files,
                                  a.commands, a.status, a.iterations, t)
    /\ store_log' = Append(store_log,
           [op |-> "update", session_id |-> session_id, args |-> a,
            file |-> FileState(sessions, session_id),
            raised |-> load_session(sessions, session_id).raised])
    /\ UNCHANGED <<pc, side_vars, agent_vars>>

\* a call of mark_complete
MarkComplete(session_id, t) ==
    /\ pc = "store"
    /\ Len(store_log) < MaxOps
    /\ session_id \in StoreIds
    /\ t >= now
    /\ now' = t
    /\ sessions' = mark_complete(sessions, session_id, t)
    /\ store_log' = Append(store_log,
           [op |-> "mark_complete", session_id |-> session_id,
            args |-> Upd(None, <<>>, <<>>, "complete", -1),
            file |-> FileState(sessions, session_id),
            raised |-> load_session(sessions, session_id).raised])
    /\ UNCHANGED <<pc, side_vars, agent_vars>>

\* a call of mark_failed
MarkFailed(session_id, t) ==
    /\ pc = "store"
    /\ Len(store_log) < MaxOps
    /\ session_id \in StoreIds
    /\ t >= now
    /\ now' = t
    /\ sessions' = mark_failed(sessions, session_id, t)
    /\ store_log' = Append(store_log,
           [op |-> "mark_failed", session_id |-> session_id,
            args |-> Upd(None, <<>>, <<>>, "failed", -1),
            file |-> FileState(sessions, session_id),
            raised |-> load_session(sessions, session_id).raised])
    /\ UNCHANGED <<pc, side_vars, agent_vars>>

\* a call of load_session
StoreLoad(session_id) ==
    /\ pc = "store"
    /\ Len(store_log) < MaxOps
    /\ session_id \in StoreIds
    /\ store_log' = Append(store_log,
           [op |-> "load", session_id |-> session_id,
            file |-> FileState(sessions, session_id),
            ret |-> load_session(sessions, session_id),
            raised |-> load_session(sessions, session_id).raised])
    /\ UNCHANGED <<pc, side_vars, agent_vars, sessions, now>>

\* a call of get_session_context
StoreContext(session_id) ==
    /\ pc = "store"
    /\ Len(store_log) < MaxOps
    /\ session_id \in StoreIds
    /\ store_log' = Append(store_log,
           [op |-> "context", session_id |-> session_id,
            file |-> FileState(sessions, session_id),
            ret |-> get_session_context(sessions, session_id),
            raised |-> load_session(sessions, session_id).raised])
    /\ UNCHANGED <<pc, side_vars, agent_vars, sessions, now>>

\* the environment damages the file of a session id (a torn write, a
\* permission change): the content is no longer JSON, or open() fails
Damage(session_id, kind) ==
    /\ pc = "store"
    /\ Len(store_log) < MaxOps
    /\ session_id \in StoreIds
    /\ sessions' = (session_id :> [damage |-> kind]) @@ sessions
    /\ store_log' = Append(store_log,
           [op |-> "damage", session_id |-> session_id, kind |-> kind,
            file |-> FileState(sessions, session_id), raised |-> FALSE])
    /\ UNCHANGED <<pc, side_vars, agent_vars, now>>

NextStore ==
    \/ \E t \in 0..MaxClock : StoreCreate(DirX, <<"first task">>, t)
    \/ \E session_id \in StoreIds, a \in UpdateChoices, t \in 0..MaxClock :
           StoreUpdate(session_id, a, t)
    \/ \E session_id \in StoreIds, t \in 0..MaxClock : MarkComplete(session_id, t)
    \/ \E session_id \in StoreIds, t \in 0..MaxClock : MarkFailed(session_id, t)
    \/ \E session_id \in StoreIds : StoreLoad(session_id)
    \/ \E session_id \in StoreIds : StoreContext(session_id)
    \/ \E session_id \in StoreIds, kind \in {"corrupt", "unreadable"} :
           Damage(session_id, kind)

SpecStore == InitStore /\ [][NextStore]_vars

\* -------------------------------- update_session from several contexts
\* update_session holds no lock: a context reads the record (line 84) and
\* writes it back (line 109) in two steps, and the steps of the contexts
\* interleave.  At most MaxOps updates are made.
Contexts == {1, 2}

InitRace ==
    /\ pc = "race"
    /\ IdleAgent
    /\ sessions = OldSession.sessions
    /\ now = 0
    /\ store_log = <<>>
    /\ InitSide

\* line 84: context c enters update_session with the arguments a and loads
RaceLoad(c, a) ==
    /\ pc = "race"
    /\ c \notin DOMAIN writers
    /\ Len(store_log) + Cardinality(DOMAIN writers) < MaxOps
    /\ writers' = (c :> [session_id |-> OldSession.session_id, args |-> a,
                         loaded |-> load_session(sessions, OldSession.session_id)])
                  @@ writers
    /\ UNCHANGED <<pc, agent_vars, sessions, now, store_log, terminal, manager, run>>

\* lines 86-110: context c changes the record it loaded and saves it
RaceSave(c, t) ==
    /\ pc = "race"
    /\ c \in DOMAIN writers
    /\ t >= now
    /\ now' = t
    /\ LET w == writers[c]
       IN  /\ sessions' = apply_update(sessions, w.session_id, w.loaded,
                              w.args.new_prompt, w.args.files, w.args.commands,
                              w.args.status, w.args.iterations, t)
           /\ store_log' = Append(store_log,
                  [op |-> "update", session_id |-> w.session_id, args |-> w.args,
                   file |-> FileState(sessions, w.session_id), context |-> c,
                   raised |-> w.loaded.raised])
    /\ writers' = [d \in DOMAIN writers \ {c} |-> writers[d]]
    /\ UNCHANGED <<pc, agent_vars, terminal, manager, run>>

NextRace ==
    \/ \E c \in Contexts, a \in UpdateChoices : RaceLoad(c, a)
    \/ \E c \in Contexts, t \in 0..MaxClock : RaceSave(c, t)

SpecRace == InitRace /\ [][NextRace]_vars

\* ------------------------------------------- AutonomousManager, two objects
\* src/core/autonomous_manager.py.  Two AutonomousManager objects (the
\* module-level one of src/api/routes/autonomous.py and the one a CLI command
\* constructs) use the same permission_grants table.  The variable manager
\* holds: inst, the fields of each object; grants, the rows of the table;
\* utcnow, datetime.utcnow() in hours; inflight, per object the number of
\* execute_with_permission calls that are awaiting action_func; ran, per
\* object the number of action_func invocations since its counter was last
\* reset; calls, the number of calls made so far; last, what the latest call
\* did.
Managers == {1, 2}
PermissionTypes == {"terminal", "sudo"}
Scopes == {None}

\* duration_hours of grant_permission: None (0 is falsy in the same way) or 1
Durations == {0, 1}

\* lines 17-22: the object after construction from the settings s
NewManager(s) ==
    [autonomous_mode |-> s.autonomous_mode,
     max_actions |-> s.max_autonomous_actions,
     require_confirmation |-> s.require_confirmation,
     action_count |-> 0,
     permission_cache |-> [k \in {} |-> FALSE]]

\* src/config.py lines 26-28: the settings the objects are constructed from
SettingsChoices ==
    [autonomous_mode : BOOLEAN,
     max_autonomous_actions : 1..MaxActions,
     require_confirmation : BOOLEAN]

\* line 57: the cache key of an action
cache_key(action_type, scope, requires_sudo) ==
    <<action_type, scope, requires_sudo>>

\* the rows a select with the given filters returns; revoked_at.is_(None) is
\* in every query of the class
ActiveRows(rows, permission_type) ==
    {j \in 1..Len(rows) :
        rows[j].permission_type = permission_type /\ ~rows[j].revoked}

\* lines 93, 113: expires_at and expires_at < datetime.utcnow(); expires_at
\* is the empty set for None and {t} for the time t
Expired(row, utcnow) == \E e \in row.expires_at : e < utcnow

\* lines 71-120: _check_permission
check_permission(rows, action_type, scope, requires_sudo, utcnow) ==
    LET granted(ty) == {j \in ActiveRows(rows, ty) : rows[j].granted}
        sudo == granted("sudo")
        perm == IF Truthy(scope)
                THEN {j \in granted(action_type) : rows[j].scope = scope}
                ELSE granted(action_type)
    IN  IF requires_sudo /\ sudo = {} THEN FALSE
        ELSE IF requires_sudo /\ \E j \in sudo : Expired(rows[j], utcnow) THEN FALSE
        ELSE IF perm = {} THEN FALSE
        ELSE IF \E j \in perm : Expired(rows[j], utcnow) THEN FALSE
        ELSE IF \E j \in perm : rows[j].requires_confirmation THEN FALSE
        ELSE TRUE

\* line 58: cache_key in self.permission_cache
CacheHit(o, key) == key \in DOMAIN o.permission_cache

\* lines 43-69: can_execute on the object o; ret is the value returned and o
\* the object afterwards
can_execute(o, rows, action_type, scope, requires_sudo, utcnow) ==
    LET key == cache_key(action_type, scope, requires_sudo)
        has_permission == check_permission(rows, action_type, scope,
                                           requires_sudo, utcnow)
    IN  IF ~o.autonomous_mode THEN [ret |-> FALSE, o |-> o]
        ELSE IF o.action_count >= o.max_actions THEN [ret |-> FALSE, o |-> o]
        ELSE IF o.require_confirmation THEN [ret |-> FALSE, o |-> o]
        ELSE IF CacheHit(o, key)
             THEN [ret |-> o.permission_cache[key], o |-> o]
        ELSE [ret |-> has_permission,
              o |-> [o EXCEPT !.permission_cache =
                         (key :> has_permission) @@ o.permission_cache]]

\* lines 142-177: the table after grant_permission
grant_permission(rows, permission_type, scope, duration_hours, requires_confirmation, utcnow) ==
    LET expires_at == IF duration_hours # 0 THEN {utcnow + duration_hours} ELSE {}
        existing == {j \in ActiveRows(rows, permission_type) : rows[j].scope = scope}
        row == [permission_type |-> permission_type, scope |-> scope,
                granted |-> TRUE, expires_at |-> expires_at,
                requires_confirmation |-> requires_confirmation,
                revoked |-> FALSE]
    IN  IF existing # {}
        THEN [j \in 1..Len(rows) |-> IF j \in existing THEN row ELSE rows[j]]
        ELSE Append(rows, row)

\* lines 192-201: the rows revoke_permission selects
RevokeSelect(rows, permission_type, scope) ==
    IF Truthy(scope)
    THEN {j \in ActiveRows(rows, permission_type) : rows[j].scope = scope}
    ELSE ActiveRows(rows, permission_type)

\* lines 203-206: the table after revoke_permission
revoke_permission(rows, permission_type, scope) ==
    LET sel == RevokeSelect(rows, permission_type, scope)
    IN  [j \in 1..Len(rows) |->
            IF j \in sel
            THEN [rows[j] EXCEPT !.granted = FALSE, !.revoked = TRUE]
            ELSE rows[j]]

\* lines 180, 209: self.permission_cache.clear()
ClearCache(o) == [o EXCEPT !.permission_cache = [k \in {} |-> FALSE]]

\* the table holds a grant for the action type and scope that is granted,
\* not revoked and not expired
ValidGrant(rows, action_type, scope, utcnow) ==
    \E j \in ActiveRows(rows, action_type) :
        /\ rows[j].granted
        /\ rows[j].scope = scope
        /\ ~Expired(rows[j], utcnow)

NoCall ==
    [op |-> "none", m |-> 0, ret |-> FALSE, valid |-> FALSE,
     invoked |-> FALSE, counted |-> FALSE]

InitManager ==
    /\ pc = "manager"
    /\ IdleAgent
    /\ sessions = EmptyStore
    /\ now = 0
    /\ store_log = <<>>
    /\ writers = NoWriters
    /\ terminal = NoProcess
    /\ run = FirstRun
    /\ \E s \in SettingsChoices :
         manager = [inst |-> [m \in Managers |-> NewManager(s)],
                    grants |-> <<>>,
                    utcnow |-> 0,
                    inflight |-> [m \in Managers |-> 0],
                    ran |-> [m \in Managers |-> 0],
                    calls |-> 0,
                    last |-> NoCall]

ManagerFrame ==
    UNCHANGED <<pc, agent_vars, sessions, now, store_log, writers, terminal, run>>

ManagerCall ==
    /\ pc = "manager"
    /\ manager.calls < MaxManagerCalls

\* lines 24-69: a caller asks the object m whether the action may run
CanExecute(m, action_type, scope, requires_sudo) ==
    /\ ManagerCall
    /\ LET r == can_execute(manager.inst[m], manager.grants, action_type,
                            scope, requires_sudo, manager.utcnow)
       IN  manager' = [manager EXCEPT
               !.inst[m] = r.o,
               !.calls = @ + 1,
               !.last = [op |-> "can_execute", m |-> m, ret |-> r.ret,
                         valid |-> ValidGrant(manager.grants, action_type,
                                              scope, manager.utcnow),
                         invoked |-> FALSE, counted |-> FALSE]]
    /\ ManagerFrame

\* lines 122-183: grant_permission through the object m
GrantPermission(m, permission_type, scope, duration_hours, requires_confirmation) ==
    /\ ManagerCall
    /\ manager' = [manager EXCEPT
           !.grants = grant_permission(manager.grants, permission_type, scope,
                          duration_hours, requires_confirmation, manager.utcnow),
           !.inst[m] = ClearCache(@),
           !.calls = @ + 1,
           !.last = [NoCall EXCEPT !.op = "grant", !.m = m, !.ret = TRUE]]
    /\ ManagerFrame

\* lines 185-214: revoke_permission through the object m
RevokePermission(m, permission_type, scope) ==
    /\ ManagerCall
    /\ LET found == RevokeSelect(manager.grants, permission_type, scope) # {}
       IN  manager' = [manager EXCEPT
               !.grants = revoke_permission(manager.grants, permission_type, scope),
               !.inst[m] = IF found THEN ClearCache(@) ELSE @,
               !.calls = @ + 1,
               !.last = [NoCall EXCEPT !.op = "revoke", !.m = m, !.ret = found]]
    /\ ManagerFrame

\* datetime.utcnow() advances by an hour
ManagerTick ==
    /\ pc = "manager"
    /\ manager.utcnow < MaxHours
    /\ manager' = [manager EXCEPT !.utcnow = @ + 1]
    /\ ManagerFrame

\* lines 262-265: reset_action_count
ResetActionCount(m) ==
    /\ ManagerCall
    /\ manager' = [manager EXCEPT
           !.inst[m].action_count = 0,
           !.ran[m] = 0,
           !.calls = @ + 1,
           !.last = [NoCall EXCEPT !.op = "reset", !.m = m]]
    /\ ManagerFrame

\* lines 267-273: enable_autonomous_mode; max_actions 0 stands for None
EnableAutonomousMode(m, max_actions) ==
    /\ ManagerCall
    /\ manager' = [manager EXCEPT
           !.inst[m].autonomous_mode = TRUE,
           !.inst[m].max_actions = IF max_actions # 0 THEN max_actions ELSE @,
           !.inst[m].action_count = 0,
           !.ran[m] = 0,
           !.calls = @ + 1,
           !.last = [NoCall EXCEPT !.op = "enable", !.m = m]]
    /\ ManagerFrame

\* lines 275-278: disable_autonomous_mode
DisableAutonomousMode(m) ==
    /\ ManagerCall
    /\ manager' = [manager EXCEPT
           !.inst[m].autonomous_mode = FALSE,
           !.calls = @ + 1,
           !.last = [NoCall EXCEPT !.op = "disable", !.m = m]]
    /\ ManagerFrame

\* lines 280-283: set_confirmation_requirement
SetConfirmationRequirement(m, required) ==
    /\ ManagerCall
    /\ manager' = [manager EXCEPT
           !.inst[m].require_confirmation = required,
           !.calls = @ + 1,
           !.last = [NoCall EXCEPT !.op = "confirm", !.m = m]]
    /\ ManagerFrame

\* lines 307-320: execute_with_permission up to the await of action_func: a
\* denied call returns None, an allowed one invokes the action and waits
ExecuteWithPermission(m, action_type, scope, requires_sudo) ==
    /\ ManagerCall
    /\ LET r == can_execute(manager.inst[m], manager.grants, action_type,
                            scope, requires_sudo, manager.utcnow)
       IN  manager' = [manager EXCEPT
               !.inst[m] = r.o,
               !.inflight[m] = IF r.ret THEN @ + 1 ELSE @,
               !.ran[m] = IF r.ret THEN @ + 1 ELSE @,
               !.calls = @ + 1,
               !.last = [op |-> "execute", m |-> m, ret |-> r.ret,
                         valid |-> ValidGrant(manager.grants, action_type,
                                              scope, manager.utcnow),
                         invoked |-> r.ret,
                         counted |-> r.o.action_count
                                       # manager.inst[m].action_count]]
    /\ ManagerFrame

\* lines 320-325: action_func returns and the call is counted, or it raises
\* and the exception leaves execute_with_permission
ActionDone(m, raises) ==
    /\ pc = "manager"
    /\ manager.inflight[m] > 0
    /\ manager' = [manager EXCEPT
           !.inflight[m] = @ - 1,
           !.inst[m].action_count = IF raises THEN @ ELSE @ + 1,
           !.last = [NoCall EXCEPT !.op = "done", !.m = m, !.ret = ~raises,
                                   !.counted = ~raises]]
    /\ ManagerFrame

NextManager ==
    \/ \E m \in Managers, ty \in PermissionTypes \ {"sudo"}, sc \in Scopes,
          su \in BOOLEAN : CanExecute(m, ty, sc, su)
    \/ \E m \in Managers, ty \in PermissionTypes, sc \in Scopes,
          d \in Durations, rc \in BOOLEAN : GrantPermission(m, ty, sc, d, rc)
    \/ \E m \in Managers, ty \in PermissionTypes, sc \in Scopes :
          RevokePermission(m, ty, sc)
    \/ ManagerTick
    \/ \E m \in Managers : ResetActionCount(m)
    \/ \E m \in Managers, n \in 0..MaxActions : EnableAutonomousMode(m, n)
    \/ \E m \in Managers : DisableAutonomousMode(m)
    \/ \E m \in Managers, required \in BOOLEAN :
          SetConfirmationRequirement(m, required)
    \/ \E m \in Managers, ty \in PermissionTypes \ {"sudo"}, sc \in Scopes,
          su \in BOOLEAN : ExecuteWithPermission(m, ty, sc, su)
    \/ \E m \in Managers, raises \in BOOLEAN : ActionDone(m, raises)

SpecManager == InitManager /\ [][NextManager]_vars

\* ----------------------------------------------------- reading the history
Returned == pc = "returned"
IsAborted == Returned /\ "error" \in DOMAIN outcome

AssistantIdx ==
    {i \in 1..Len(conversation_history) : conversation_history[i].role = "assistant"}

\* the iteration whose response is the assistant turn at position i
IterationOf(i) == Cardinality({j \in AssistantIdx : j <= i})

NoToolCalls(i) == conversation_history[i].tool_calls = <<>>

\* the positions of the tool-result turns that answer the tool call id
ResultsFor(id) ==
    {j \in 1..Len(conversation_history) :
        /\ conversation_history[j].role = "tool"
        /\ conversation_history[j].tool_call_id = id}

IsCorrective(j) ==
    /\ j <= Len(conversation_history)
    /\ conversation_history[j] = UserTurn(Corrective)

\* the first response of the run is a clarifying question
FirstIsQuestion ==
    /\ Len(conversation_history) >= 3
    /\ conversation_history[3].role = "assistant"
    /\ NoToolCalls(3)
    /\ Truthy(conversation_history[3].content)

\* ---------------------------------------------------------------- claims
\* C1: the reported iterations never exceed max_iterations and equal the
\* number of completion-service calls made in the run, of which at most one
\* is outstanding at any time.
C1_IterationsBounded ==
    /\ outstanding \in {0, 1}
    /\ llm_calls <= max_iterations
    /\ Returned => /\ outcome.iterations <= max_iterations
                   /\ outcome.iterations = llm_calls

C1_Witness ==
    /\ Returned
    /\ max_iterations >= 2
    /\ outcome.iterations = max_iterations
    /\ llm_calls = max_iterations

\* C2 as stated: a run in which the sentinel is never emitted returns
\* max_iterations_reached = true and success = false.
C2_Original ==
    (Returned /\ ~task_complete) =>
        /\ "max_iterations_reached" \in DOMAIN outcome
        /\ outcome.max_iterations_reached
        /\ ~outcome.success

\* C2 amended: a run in which the sentinel is never emitted returns
\* success = false; an Aborted outcome has no max_iterations_reached field;
\* any other outcome has max_iterations_reached = true exactly when
\* iterations >= max_iterations, and where it is false the run ended by the
\* clarifying-question exit of iteration 1.
C2_Amended ==
    (Returned /\ ~task_complete) =>
        /\ ~outcome.success
        /\ IF IsAborted
           THEN "max_iterations_reached" \notin DOMAIN outcome
           ELSE /\ outcome.max_iterations_reached = (outcome.iterations >= max_iterations)
                /\ ~outcome.max_iterations_reached =>
                       FirstIsQuestion /\ outcome.iterations = 1

C2_Witness ==
    /\ Returned
    /\ ~task_complete
    /\ ~IsAborted
    /\ outcome.iterations >= 2
    /\ outcome.max_iterations_reached
    /\ \E i \in AssistantIdx : ~NoToolCalls(i)

\* C3: once a tool result carrying the sentinel has been observed no further
\* completion-service call is made, and the run returns success = true.
C3_CompleteAfterSentinel ==
    task_complete =>
        /\ pc # "await"
        /\ Returned => /\ outcome.success
                       /\ ~IsAborted

\* the tool calls of the last assistant turn
LastTurnCalls ==
    IF AssistantIdx = {} THEN <<>>
    ELSE conversation_history[CHOOSE i \in AssistantIdx :
                                  \A j \in AssistantIdx : j <= i].tool_calls

\* C4: when the sentinel is observed for a tool call that is not the last of
\* its turn, every remaining tool call of the turn is dispatched and has its
\* tool-result turn in the history when the run returns.
C4_RestOfBatchRuns ==
    (Returned /\ task_complete) =>
        \A k \in 1..Len(LastTurnCalls) :
            /\ \E n \in 1..Len(dispatched) : dispatched[n].id = LastTurnCalls[k].id
            /\ ResultsFor(LastTurnCalls[k].id) # {}

\* C5: at every completion-service call, each tool invocation of an earlier
\* assistant turn is followed in the history by exactly one tool-result
\* turn that carries its id.
C5_EveryCallAnswered ==
    pc = "await" =>
        \A i \in AssistantIdx :
            \A k \in 1..Len(conversation_history[i].tool_calls) :
                LET id == conversation_history[i].tool_calls[k].id
                IN  /\ Cardinality(ResultsFor(id)) = 1
                    /\ \A j \in ResultsFor(id) : j > i

C5_Witness ==
    /\ pc = "await"
    /\ iteration >= 2
    /\ \E i \in AssistantIdx : Len(conversation_history[i].tool_calls) >= 2

\* the tool-result turns that directly follow the assistant turn at i
RECURSIVE ResultRun(_)
ResultRun(j) ==
    IF j <= Len(conversation_history) /\ conversation_history[j].role = "tool"
    THEN <<conversation_history[j].tool_call_id>> \o ResultRun(j + 1)
    ELSE <<>>

IsPrefix(a, b) == Len(a) <= Len(b) /\ a = SubSeq(b, 1, Len(a))

CallIds(calls) == [k \in 1..Len(calls) |-> calls[k].id]

\* the ids of all tool calls listed so far, in the order listed
RECURSIVE ListedFrom(_)
ListedFrom(i) ==
    IF i > Len(conversation_history) THEN <<>>
    ELSE (IF conversation_history[i].role = "assistant"
          THEN CallIds(conversation_history[i].tool_calls) ELSE <<>>)
         \o ListedFrom(i + 1)

SuccessDir(id, path) ==
    \E j \in ResultsFor(id) :
        conversation_history[j].content = <<"Successfully created directory: ">> \o path

\* C6: the tool calls of a turn are dispatched one at a time, in the order
\* listed, each returning before the next starts, and their tool-result
\* turns are in the history in that order; when create_file(x/y) follows a
\* successful create_directory(x) in a turn, x exists when create_file runs.
C6_InOrderOneAtATime ==
    /\ Cardinality(running) <= 1
    /\ IsPrefix(CallIds(dispatched), ListedFrom(1))
    /\ \A n \in 1..Len(dispatched) :
          IF n < Len(dispatched) \/ running = {}
          THEN ResultsFor(dispatched[n].id) # {}
          ELSE running = {dispatched[n].id} /\ ResultsFor(dispatched[n].id) = {}
    /\ \A i \in AssistantIdx :
          IsPrefix(ResultRun(i + 1), CallIds(conversation_history[i].tool_calls))
    /\ \A n \in 1..(Len(dispatched) - 1) :
          LET d == dispatched[n]
              f == dispatched[n + 1]
          IN  (/\ d.name = "create_directory"
               /\ f.name = "create_file"
               /\ DictGet(f.args, "file_path") # None
               /\ Parent(DictGet(f.args, "file_path")) = DictGet(d.args, "directory_path")
               /\ SuccessDir(d.id, DictGet(d.args, "directory_path")))
              => DictGet(d.args, "directory_path") \in f.dirs

C6_Witness ==
    /\ Len(dispatched) >= 2
    /\ running = {}
    /\ dispatched[1].name = "create_directory"
    /\ dispatched[2].name = "create_file"
    /\ dispatched[2].id = dispatched[1].id + 1
    /\ Len(LastTurnCalls) >= 2
    /\ DirX \in dispatched[2].dirs
    /\ DirX \notin dispatched[1].dirs
    /\ IsFile(fs, FileXY)
    /\ ResultRun(4) = <<dispatched[1].id, dispatched[2].id>>

\* C7: when the first response has no tool calls and a non-empty text, the
\* run returns at once: success = false, no error, iterations = 1, a single
\* completion-service call and no corrective message.
C7_ClarifyingQuestionExit ==
    FirstIsQuestion =>
        /\ pc \in {"post", "returned"}
        /\ llm_calls = 1
        /\ Len(conversation_history) = 3
        /\ Returned => /\ ~outcome.success
                       /\ "error" \notin DOMAIN outcome
                       /\ outcome.iterations = 1

C7_Witness ==
    /\ FirstIsQuestion
    /\ Returned
    /\ max_iterations >= 2

\* C8: a response without tool calls on an iteration after the first gets
\* exactly one corrective user message; another completion-service call
\* follows if and only if that iteration was not the last allowed one; the
\* corrective turn costs no iteration (iterations count the calls made).
C8_CorrectiveTurn ==
    /\ iteration = llm_calls
    /\ \A i \in AssistantIdx :
          (NoToolCalls(i) /\ IterationOf(i) > 1) =>
              /\ IsCorrective(i + 1)
              /\ ~IsCorrective(i + 2)
              /\ pc \in {"post", "returned"} =>
                     (IterationOf(i) < max_iterations <=> llm_calls > IterationOf(i))

C8_Witness ==
    /\ Returned
    /\ \E i \in AssistantIdx :
          /\ NoToolCalls(i)
          /\ IterationOf(i) = 2
          /\ IterationOf(i) < max_iterations
          /\ llm_calls = 3
    /\ \E i \in AssistantIdx :
          /\ NoToolCalls(i)
          /\ IterationOf(i) = max_iterations

\* C9: a completion-service call that throws on iteration k ends the run at
\* once: the outcome has success = false, the failure text as error and
\* iterations = k, and afterwards there is no completion-service call and
\* no tool dispatch.
C9_ServiceFailureAborts ==
    [][ /\ (pc = "await" /\ Len(conversation_history') = Len(conversation_history)) =>
            /\ pc' = "returned"
            /\ outcome'.success = FALSE
            /\ outcome'.error = <<"APIError">>
            /\ outcome'.iterations = iteration
            /\ iteration = llm_calls
        /\ pc = "returned" =>
            /\ llm_calls' = llm_calls
            /\ dispatched' = dispatched
            /\ pc' = "returned" ]_vars

C9_Witness ==
    /\ IsAborted
    /\ outcome.error = <<"APIError">>
    /\ outcome.iterations = 2
    /\ dispatched # <<>>

\* the tool calls listed so far whose argument JSON does not parse
Unparsable ==
    {tc \in UNION {{conversation_history[i].tool_calls[k] :
                       k \in 1..Len(conversation_history[i].tool_calls)} :
                   i \in AssistantIdx} : ~JsonLoads(tc.arguments).ok}

\* C10: a tool call whose argument JSON fails to parse gets an error
\* tool-result turn and the loop goes on; the run is not terminated by it.
C10_BadJsonIsDispatchError ==
    Returned =>
        /\ \A tc \in Unparsable : ResultsFor(tc.id) # {}
        /\ ~(IsAborted /\ outcome.error = <<"JSONDecodeError">>)

\* C11: the dispatcher returns a text for every tool name and every parsed
\* argument value and never raises to the controller, which appends the
\* text as the tool-result turn.
C11_DispatcherNeverRaises ==
    /\ ~(IsAborted /\ outcome.error = <<"AttributeError">>)
    /\ \A n \in 1..Len(dispatched) :
          (n < Len(dispatched) \/ running = {}) => ResultsFor(dispatched[n].id) # {}

\* C12: once the loop has started no exception escapes to the caller; the
\* call returns a Run Outcome.
C12_NoExceptionEscapes == pc # "raised"

OutcomeFields ==
    {"success", "summary", "project_path", "iterations", "max_iterations_reached",
     "session_id", "files_created", "commands_executed"}

\* C13: every Run Outcome, in each terminal state, has all the fields
\* success, summary, project_path, iterations, max_iterations_reached,
\* session_id, files_created and commands_executed.
C13_OutcomeHasAllFields == Returned => OutcomeFields \subseteq DOMAIN outcome

Elements(xs) == {xs[i] : i \in 1..Len(xs)}

CompleteWithPath ==
    /\ Returned
    /\ ~IsAborted
    /\ outcome.success
    /\ Truthy(outcome.project_path)

\* C14: after a run that ends Complete with a reported project path the
\* store holds a record under the returned session_id, with status complete
\* and the file paths and commands of the run, whether the agent had no
\* session id, an id that the store holds or an id that it does not hold.
C14_SessionRecorded ==
    CompleteWithPath =>
        /\ outcome.session_id \in DOMAIN sessions
        /\ sessions[outcome.session_id].status = "complete"
        /\ Elements(files_created) \subseteq
               Elements(sessions[outcome.session_id].files_created)
        /\ Elements(commands_executed) \subseteq
               Elements(sessions[outcome.session_id].commands_executed)

\* C15: the session store is written only after the loop has terminated,
\* in the step that returns, and only after a sentinel: a run that ends
\* without it leaves every stored record as it was.
C15_StoreWrittenAfterLoop ==
    [][ sessions' # sessions =>
            /\ pc \in {"post", "while"}
            /\ pc = "while" => ~LoopCondition
            /\ pc' = "returned"
            /\ task_complete ]_vars

C15_Witness ==
    /\ CompleteWithPath
    /\ outcome.iterations >= 2
    /\ outcome.session_id = OldSession.session_id
    /\ sessions # OldSession.sessions
    /\ sessions[outcome.session_id].files_created # <<>>

\* C17: after a resumed run with task T on an existing session, T is one of
\* the prompts stored for that session.
C17_TaskInPrompts ==
    [][ ( /\ pc # "returned"
          /\ pc' = "returned"
          /\ task_complete
          /\ "project_path" \in DOMAIN outcome'
          /\ Truthy(outcome'.project_path)
          /\ project_session_id \in DOMAIN sessions ) =>
            /\ task \in Elements(sessions'[project_session_id].prompts)
            /\ IsPrefix(sessions[project_session_id].prompts,
                        sessions'[project_session_id].prompts) ]_vars

UpdateOps == {"update", "mark_complete", "mark_failed"}

\* the calls after the i-th one that update the session the i-th call created
UpdatesAfter(i) ==
    {j \in (i + 1)..Len(store_log) :
        /\ store_log[j].op \in UpdateOps
        /\ store_log[j].session_id = store_log[i].session_id}

\* the i-th call created a session that has only been updated since
CreatedThenUpdated(i) ==
    /\ store_log[i].op = "create"
    /\ store_log[i].file # "unreadable"
    /\ \A j \in (i + 1)..Len(store_log) :
          store_log[j].session_id = store_log[i].session_id =>
              store_log[j].op \notin {"create", "damage"}

\* C16: after create_session and any sequence of update_session calls on
\* the session, files_created holds exactly the union of the paths supplied,
\* each once, and prompts has 1 + (number of updates with a new prompt, a
\* non-empty text) elements.
C16_UnionAndPromptCount ==
    \A i \in 1..Len(store_log) :
        CreatedThenUpdated(i) =>
            LET d == sessions[store_log[i].session_id]
                ups == UpdatesAfter(i)
            IN  /\ Elements(d.files_created) =
                       UNION {Elements(store_log[j].args.files) : j \in ups}
                /\ Len(d.files_created) = Cardinality(Elements(d.files_created))
                /\ Len(d.prompts) =
                       1 + Cardinality({j \in ups :
                                           Truthy(store_log[j].args.new_prompt)})

C16_Witness ==
    /\ Len(store_log) = 4
    /\ CreatedThenUpdated(1)
    /\ store_log[2].op = "update" /\ store_log[2].args.files = <<FileA, FileB>>
    /\ store_log[3].op = "update" /\ store_log[3].args.files = <<FileB, FileC>>
    /\ store_log[4].op = "update" /\ store_log[4].args.new_prompt = <<"more">>
    /\ UpdatesAfter(1) = {2, 3, 4}
    /\ Len(sessions[store_log[1].session_id].files_created) = 3
    /\ Len(sessions[store_log[1].session_id].prompts) = 2

Last(xs) == xs[Len(xs)]

\* the step is a call of the session store (one entry is logged)
StoreCall == Len(store_log') = Len(store_log) + 1

FixedFields ==
    {"session_id", "project_name", "project_path", "created_at", "initial_prompt"}

\* C18: update_session changes only the fields for which an argument is
\* supplied, plus updated_at, and leaves every other record unchanged; an
\* update with status only (mark_complete, mark_failed) changes status and
\* updated_at alone.
C18_UpdateFrame ==
    [][ ( /\ StoreCall
          /\ Last(store_log').op \in UpdateOps
          /\ Last(store_log').file = "valid" ) =>
            LET e == Last(store_log')
                old == sessions[e.session_id]
                new == sessions'[e.session_id]
            IN  /\ DOMAIN sessions' = DOMAIN sessions
                /\ \A o \in DOMAIN sessions \ {e.session_id} :
                       sessions'[o] = sessions[o]
                /\ DOMAIN new = DOMAIN old
                /\ \A k \in FixedFields : new[k] = old[k]
                /\ ~Truthy(e.args.new_prompt) => new.prompts = old.prompts
                /\ e.args.files = <<>> => new.files_created = old.files_created
                /\ e.args.commands = <<>> =>
                       new.commands_executed = old.commands_executed
                /\ e.args.status = NoStatus => new.status = old.status
                /\ e.args.iterations = -1 => new.iterations = old.iterations ]_vars

C18_Witness ==
    /\ Len(store_log) = 4
    /\ store_log[1].op = "create" /\ store_log[2].op = "create"
    /\ store_log[1].session_id # store_log[2].session_id
    /\ store_log[3].op = "update" /\ store_log[3].args.iterations = 2
    /\ store_log[3].session_id = store_log[4].session_id
    /\ store_log[4].op = "mark_failed" /\ store_log[4].file = "valid"
    /\ sessions[store_log[4].session_id].status = "failed"
    /\ sessions[store_log[4].session_id].iterations = 2

C20_SessionIdsUnique ==
    \A i, j \in 1..Len(store_log) :
        (i < j /\ store_log[i].op = "create" /\ store_log[j].op = "create") =>
            /\ store_log[i].session_id # store_log[j].session_id
            /\ store_log[j].file = "missing"

\* C21: concurrent update_session calls on one session id are serialized:
\* once all of them have finished, the record holds every file path and
\* every command that any of them supplied, as it does when the updates run
\* one after the other.
C21_NoUpdateLost ==
    writers = NoWriters =>
        \A i \in 1..Len(store_log) :
            store_log[i].op = "update" =>
                /\ Elements(store_log[i].args.files) \subseteq
                       Elements(sessions[store_log[i].session_id].files_created)
                /\ Elements(store_log[i].args.commands) \subseteq
                       Elements(sessions[store_log[i].session_id].commands_executed)

DispatchedNames == {dispatched[n].name : n \in 1..Len(dispatched)}

\* C22: the sentinel is recognized only on the result of a task_complete
\* call: task_complete is set, and the run ends Complete, only if a
\* task_complete call was dispatched; the result of another tool neither
\* ends the loop nor aborts it.
C22_SentinelOnlyFromTaskComplete ==
    /\ task_complete => "task_complete" \in DispatchedNames
    /\ (Returned /\ outcome.success) => "task_complete" \in DispatchedNames

\* the tool-result turns whose content begins with the sentinel
SentinelTurns ==
    {j \in 1..Len(conversation_history) :
        /\ conversation_history[j].role = "tool"
        /\ StartsWith(conversation_history[j].content, Sentinel)}

\* the dispatch that the tool-result turn j answers
DispatchOf(j) ==
    dispatched[CHOOSE n \in 1..Len(dispatched) :
                   dispatched[n].id = conversation_history[j].tool_call_id]

\* C28: the summary and project_path of a Complete Run Outcome equal the
\* summary and project_path arguments of the task_complete call that set
\* them, whatever the argument texts are.
C28_CompletionRoundTrip ==
    (Returned /\ ~IsAborted /\ outcome.success /\ SentinelTurns # {}) =>
        LET j == CHOOSE k \in SentinelTurns : \A l \in SentinelTurns : l <= k
            call == DispatchOf(j)
        IN  call.name = "task_complete" =>
                /\ outcome.summary = DictGet(call.args, "summary")
                /\ outcome.project_path = DictGet(call.args, "project_path")

C24_EventuallyReturns == <>Returned

\* C25: no returned Run Outcome has both success and
\* max_iterations_reached set, also when task_complete is called on the
\* last allowed iteration.
C25_TerminalStatesExclusive ==
    (Returned /\ ~IsAborted) =>
        ~(outcome.success /\ outcome.max_iterations_reached)

\* the dispatches of the tool name begun in the current run
DispatchedInRun(name) ==
    {n \in (run.first + 1)..Len(dispatched) : dispatched[n].name = name}

\* C26: the files_created and commands_executed counts of a Run Outcome
\* count the create_file and execute_command calls dispatched during that
\* run only, also on a second run of the same AutonomousAgent object.
C26_CountsArePerRun ==
    (Returned /\ ~IsAborted) =>
        /\ outcome.files_created = Cardinality(DispatchedInRun("create_file"))
        /\ outcome.commands_executed = Cardinality(DispatchedInRun("execute_command"))

\* C27: the iterations of a stored session count the loop turns of all its
\* runs: a resumed run that completes in n iterations on a session that
\* stored m leaves m + n.
C27_IterationsAccumulate ==
    [][ ( /\ pc # "returned"
          /\ pc' = "returned"
          /\ task_complete
          /\ "project_path" \in DOMAIN outcome'
          /\ Truthy(outcome'.project_path)
          /\ project_session_id \in DOMAIN sessions ) =>
            sessions'[project_session_id].iterations =
                sessions[project_session_id].iterations + iteration ]_vars

\* C29: whenever can_execute returns True, the permission store holds, at
\* the time of the call, a grant for that action type and scope that is
\* granted, not revoked and not expired.
C29_CanExecuteOnlyOnValidGrant ==
    (manager.last.op = "can_execute" /\ manager.last.ret) => manager.last.valid

\* C30: on every object the number of actions run through
\* execute_with_permission since the last counter reset is at most
\* max_actions, and a denied call invokes nothing and leaves action_count
\* unchanged.
C30_ActionsWithinLimit ==
    /\ \A m \in DOMAIN manager.inst :
          manager.ran[m] <= manager.inst[m].max_actions
    /\ (manager.last.op = "execute" /\ ~manager.last.ret) =>
          (~manager.last.invoked /\ ~manager.last.counted)

====
